---- MODULE Spec2Model ----
(***************************************************************************)
(* Commander backend: the context-retrieval-and-decision pipeline.         *)
(*                                                                         *)
(* The model covers the ingestion loop (_process_contexts), the Qdrant     *)
(* context store wrapper (QdrantVectorStore), the history assembler        *)
(* (get_relevant_history), the dispatcher (execute_tool / execute_action)  *)
(* and the action lifecycle (approve_action / skip_action) as they are     *)
(* served by the HTTP layer.  Every store call, embedding call, model call *)
(* and tool call is a suspension point, so each is one step of a request.  *)
(***************************************************************************)
EXTENDS Integers, Sequences, FiniteSets, TLC

(***************************************************************************)
(* Bounds of the model.                                                    *)
(***************************************************************************)
MaxOps == 3
MaxLimit == 2
MaxMail == 4

(***************************************************************************)
(* Program constants.                                                      *)
(***************************************************************************)
DEFAULT_HISTORY_LIMIT == 10

Procs == {"p1", "p2"}
Owners == {"u1", "u2"}

(***************************************************************************)
(* Generic helpers.                                                        *)
(***************************************************************************)
Min(a, b) == IF a < b THEN a ELSE b

Abs(a) == IF a < 0 THEN 0 - a ELSE a

Take(s, n) == SubSeq(s, 1, Min(n, Len(s)))

Range(s) == {s[i] : i \in 1..Len(s)}

\* Python dicts are functions from their keys; d.get(key, default)
dict_get(args, key, default) == IF key \in DOMAIN args THEN args[key] ELSE default

dict_keep(args, key) == args

\* the dict that args.pop(key, ...) leaves behind
dict_without(args, key) == [k \in DOMAIN args \ {key} |-> args[k]]

\* truth value of a Python value, the values being named by their repr
PyTruthy(v) == v \notin {"False", "None", ""}

(***************************************************************************)
(* Source records as the adapters receive them.  Two tenants can see the   *)
(* same source id (a shared Drive transcript), and one tenant can see the  *)
(* same id under two source types.  timestamp and vec stand for the event  *)
(* time and for the embedding of the rendered context_text.                *)
(***************************************************************************)
SourceItems ==
    { [user_id |-> "u1", source_id |-> "f1", source_type |-> "meeting_transcript", timestamp |-> 1, vec |-> 0],
      [user_id |-> "u2", source_id |-> "f1", source_type |-> "meeting_transcript", timestamp |-> 1, vec |-> 0],
      [user_id |-> "u1", source_id |-> "f1", source_type |-> "gmail", timestamp |-> 2, vec |-> 2] }

\* adapters: a fresh uuid4 id per conversion, processed = False
to_context(item, newid) ==
    [id |-> newid, user_id |-> item.user_id, source_type |-> item.source_type,
     source_id |-> item.source_id, timestamp |-> item.timestamp, vec |-> item.vec,
     processed |-> FALSE]

KeyOf(c) == <<c.user_id, c.source_id, c.source_type>>

(***************************************************************************)
(* Context Store (backend/vector_store.py).  A point is keyed by the       *)
(* context id; the filters of the wrapper look at source_id, source_type   *)
(* and processed only.                                                     *)
(***************************************************************************)
upsert(pts, context) == {c \in pts : c.id # context.id} \cup {context}

get_by_source_id(pts, source_id, source_type) ==
    {c \in pts : c.source_id = source_id /\ c.source_type = source_type}

check_exist(pts, source_id, source_type) ==
    get_by_source_id(pts, source_id, source_type) # {}

update_processed(pts, context_id) ==
    {IF c.id = context_id THEN [c EXCEPT !.processed = TRUE] ELSE c : c \in pts}

\* cosine similarity of two embeddings
Score(u, v) == 0 - Abs(u - v)

\* The results a ranked query can return: the `limit` best elements of S by
\* the key, best first; elements of equal key come in an order the index
\* chooses.
RECURSIVE Ranked(_, _, _)
Ranked(S, key, limit) ==
    IF S = {} \/ limit <= 0 THEN {<<>>}
    ELSE LET best == {x \in S : \A y \in S : key[y] <= key[x]}
         IN  UNION {{<<x>> \o r : r \in Ranked(S \ {x}, key, limit - 1)} : x \in best}

\* query_points(query=embedding, limit=limit), no filter given
search_similar(pts, embedding, limit) ==
    Ranked(pts, [c \in pts |-> Score(embedding, c.vec)], limit)

\* scroll(filter processed = value, order_by timestamp desc, limit=limit)
list_contexts(pts, limit, processed) ==
    LET sel == {c \in pts : c.processed = processed}
    IN  Ranked(sel, [c \in sel |-> c.timestamp], limit)

(***************************************************************************)
(* Action Store (backend/storage.py).  Rows are looked up by id for the    *)
(* calling owner; a row of another owner is reported like a missing row.   *)
(* An optional row is a set with at most one element.                      *)
(***************************************************************************)
get_action(rows, user_id, action_id) ==
    {a \in rows : a.id = action_id /\ a.user_id = user_id}

update_action_status(rows, user_id, action_id, status) ==
    {IF a.id = action_id /\ a.user_id = user_id THEN [a EXCEPT !.status = status] ELSE a : a \in rows}

save_action(rows, a) == rows \cup {a}

get_actions_for_context(rows, user_id, context_id) ==
    {a \in rows : a.context_id = context_id /\ a.user_id = user_id}

(***************************************************************************)
(* History assembler (backend/context_storage.py).  The value is the set   *)
(* of (similar, recent) results the two store queries allow; each list is  *)
(* a sequence of pairs (context, actions stored for it).                   *)
(***************************************************************************)
\* step 3: pair each context with get_actions_for_context(user_id, ctx.id)
WithActions(rows, user_id, s) ==
    [i \in 1..Len(s) |-> <<s[i], get_actions_for_context(rows, user_id, s[i].id)>>]

recent_keep_unfiltered(cur, similar_ids, c) == c.id # cur.id

recent_keep_self(cur, similar_ids, c) == c.id \notin similar_ids

recent_keep(cur, similar_ids, c) == c.id # cur.id /\ c.id \notin similar_ids

similar_keep(cur, c) == c.id # cur.id

\* limit=semantic_limit + 1, "+1 to account for current context"
similar_fetch_limit(semantic_limit) == semantic_limit + 1

recent_fetch_limit_exact(semantic_limit, recent_limit) == recent_limit

\* limit=recent_limit + semantic_limit + 1, "Extra for deduplication"
recent_fetch_limit(semantic_limit, recent_limit) == recent_limit + semantic_limit + 1

get_relevant_history(pts, rows, user_id, cur, semantic_limit, recent_limit) ==
    { LET KeepS(c) == similar_keep(cur, c)
          similar_contexts == Take(SelectSeq(sr, KeepS), semantic_limit)
          similar_ids == {similar_contexts[i].id : i \in 1..Len(similar_contexts)}
          KeepR(c) == recent_keep(cur, similar_ids, c)
          recent_contexts == Take(SelectSeq(lr, KeepR), recent_limit)
      IN  <<WithActions(rows, user_id, similar_contexts), WithActions(rows, user_id, recent_contexts)>>
      : sr \in search_similar(pts, cur.vec, similar_fetch_limit(semantic_limit)),
        lr \in list_contexts(pts, recent_fetch_limit(semantic_limit, recent_limit), TRUE) }

\* the context ids of a history list
Ids(s) == [i \in 1..Len(s) |-> s[i][1].id]

VARIABLES
    points,      \* the Qdrant collection: the stored context payloads
    actions,     \* the Action Store: the stored ProposedAction rows
    proc,        \* per request: position and locals of the handler it runs
    toolLog,     \* history of tool invocations made by the dispatcher
    ingested,    \* keys whose ingestion has run to its end at least once, with run counts
    nops,        \* number of requests started so far
    hq,          \* function harnesses: the input of the function applied
    hres,        \* function harnesses: what the function returned
    engineFailed, \* keys whose ingestion failed in the decision-engine call
    decidedOn    \* contexts the decision engine answered for, with the number of actions

vars == <<points, actions, proc, toolLog, ingested, nops, hq, hres, engineFailed, decidedOn>>

(***************************************************************************)
(* Dispatcher (backend/tools.py, backend/executors.py).  A tool hands back *)
(* a dict, a string or a value of another type, or raises.  The values of  *)
(* a dict are True, False, a string ("text") or a nested object.           *)
(***************************************************************************)
DictKeys == {"success", "skipped", "error", "details"}

DictValues == {"True", "False", "text", "object"}

ToolDicts == UNION {[K -> DictValues] : K \in SUBSET DictKeys}

\* d is the dict a tool returned, s the string it returned
DictResult(d) == [kind |-> "dict", d |-> d, s |-> ""]

StrResult(s) == [kind |-> "str", d |-> <<>>, s |-> s]

OtherResult == [kind |-> "list", d |-> <<>>, s |-> ""]

RaiseResult == [kind |-> "raise", d |-> <<>>, s |-> ""]

ToolResults ==
    {DictResult(d) : d \in ToolDicts} \cup {StrResult("text"), OtherResult, RaiseResult}

\* the results the tools of the approve path hand back
RawResults ==
    { DictResult([k \in {"success"} |-> "True"]),
      DictResult([k \in {"success", "skipped"} |-> "True"]),
      DictResult("success" :> "False" @@ "error" :> "text"),
      DictResult([k \in {"error", "details"} |-> "text"]),
      DictResult([k \in {"error"} |-> "object"]),
      StrResult("text"), OtherResult, RaiseResult }

IsStr(v) == v \in {"text", "Unknown error", ""}

\* e + ": " + d for the strings at hand
str_concat(e, d) ==
    CASE e = "text" /\ d = "text" -> "text: text"
      [] e = "text" /\ d = ""     -> "text: "
      [] e # "text" /\ d = "text" -> "Unknown error: text"
      [] OTHER                    -> "Unknown error: "

\* {"success": False, "error": msg}
Failure(msg) == ("success" :> "False" @@ "error" :> msg)

Raised == [invoked |-> TRUE, raised |-> TRUE, env |-> <<>>]

Returned(env) == [invoked |-> TRUE, raised |-> FALSE, env |-> env]

\* the branch for a dict without a success key: error + ": " + details,
\* which raises TypeError when one of the two is no string
mcp_error(d) ==
    LET e  == dict_get(d, "error", "Unknown error")
        dt == dict_get(d, "details", "")
    IN  IF IsStr(e) /\ IsStr(dt) THEN Returned(Failure(str_concat(e, dt))) ELSE Raised

\* execute_tool: look the executor up, invoke it, normalise what it returned;
\* executor says whether the registry has an executor for the action's type
execute_tool(executor, result) ==
    IF ~executor
    THEN [invoked |-> FALSE, raised |-> FALSE, env |-> Failure("No executor for action type")]
    ELSE CASE result.kind = "raise" -> Raised
           [] result.kind = "dict"  -> IF "success" \in DOMAIN result.d
                                       THEN Returned(result.d)
                                       ELSE mcp_error(result.d)
           [] result.kind = "str"   -> Returned("success" :> "True" @@ "output" :> result.s)
           [] OTHER                 -> Returned(Failure("Invalid result type"))

execute_action_status_pending(env) ==
    IF PyTruthy(dict_get(env, "success", "False")) THEN "executed" ELSE "pending"

\* executors.py: the status execute_action reports for an envelope
execute_action_status(env) ==
    IF ~PyTruthy(dict_get(env, "success", "False")) THEN "error"
    ELSE IF PyTruthy(dict_get(env, "skipped", "None")) THEN "skipped"
    ELSE "executed"

(***************************************************************************)
(* Lifecycle manager (backend/orchestrator.py) behind the HTTP handlers    *)
(* (backend/api.py).                                                       *)
(***************************************************************************)
\* "if not action: raise ValueError" in approve_action
approve_not_found(action) == action = {}

skip_not_found_never(action) == FALSE

\* "if not action: raise ValueError" in skip_action
skip_not_found(action) == action = {}

skip_status_pending == "pending"

\* the status skip_action writes
skip_status == "skipped"

approve_is_noop_skipped_only(status) == status = "skipped"

\* "if action.status not in ("pending", "error"): return action"
approve_is_noop(status) == status \notin {"pending", "error"}

\* api.py: ValueError -> HTTP 404 with the message "Action <id> not found"
NotFound(action_id) == [code |-> 404, detail |-> action_id, body |-> {}]

\* api.py: the handler returns the record it got from the orchestrator
Ok(action) == [code |-> 200, detail |-> 0, body |-> action]

\* an exception that no handler catches
ServerError == [code |-> 500, detail |-> 0, body |-> {}]

NoRet == [code |-> 0, detail |-> 0, body |-> {}]

NoResult == [status |-> "none", success |-> FALSE, detail |-> <<>>]

NoFlags == [prior |-> FALSE, wrote |-> FALSE, engine |-> FALSE, created |-> 0, dup |-> FALSE]

\* _process_emails: generate_actions, and whether the email carries the SENT label
NoOpts == [generate_actions |-> FALSE, sent |-> FALSE]

IdleProc ==
    [pc |-> "idle", op |-> "none", user |-> "u1", aid |-> 0, action |-> {},
     result |-> NoResult, batch |-> <<>>, idx |-> 0, hist |-> <<<<>>, <<>>>>,
     calls |-> <<>>, decided |-> <<>>, k |-> 0, flags |-> NoFlags, outcomes |-> <<>>,
     trail |-> <<>>, opts |-> NoOpts, ret |-> NoRet]

\* Which requests the schedule lets overlap: "all" any two, "lifecycle" approve
\* and skip calls, "ingest" ingestions, "seq" none (one request after another).
Overlap(mode, op1, op2) ==
    \/ mode = "all"
    \/ mode = "lifecycle" /\ op1 # "ingest" /\ op2 # "ingest"
    \/ mode = "ingest" /\ op1 = "ingest" /\ op2 = "ingest"

\* a request may start when the budget allows it and the schedule lets it
\* overlap the requests in flight; one worker serves the sequential schedule
CanStart(p, op, mode) ==
    /\ proc[p].pc = "idle"
    /\ nops < MaxOps
    /\ \A q \in Procs : proc[q].pc = "idle" \/ Overlap(mode, op, proc[q].op)
    /\ mode \in {"seq", "batch"} => p = "p1"

\* get_next_action_id: the store hands out ids in sequence; rows are not deleted
nextAction == Cardinality(actions) + 1

\* uuid4: an id no stored point, action or request in flight carries; the
\* ids are opaque, so the model names them in sequence
UsedCtxIds ==
    {c.id : c \in points} \cup {a.context_id : a \in actions}
        \cup UNION {{proc[q].batch[i].id : i \in 1..Len(proc[q].batch)} : q \in Procs}

nextCtx == 1 + (IF UsedCtxIds = {} THEN 0 ELSE CHOOSE n \in UsedCtxIds : \A m \in UsedCtxIds : m <= n)

\* ids a client can name: the stored ones and one that was never assigned
ActionIds == 1..nextAction

\* the handler ends: its response is r
Finish(p, r) == [proc[p] EXCEPT !.pc = "done", !.ret = r]

\* the response is sent and the request is over
Return(p) ==
    /\ proc[p].pc = "done"
    /\ proc' = [proc EXCEPT ![p] = IdleProc]
    /\ UNCHANGED <<points, actions, toolLog, ingested, nops, hq, hres, engineFailed, decidedOn>>

ApproveStart(p, mode) ==
    /\ CanStart(p, "approve", mode)
    /\ \E u \in Owners, id \in ActionIds :
          proc' = [proc EXCEPT ![p] = [IdleProc EXCEPT !.pc = "ap_read", !.op = "approve",
                                                       !.user = u, !.aid = id]]
    /\ nops' = nops + 1
    /\ UNCHANGED <<points, actions, toolLog, ingested, hq, hres, engineFailed, decidedOn>>

\* action = get_action(action_id), the not-found and already-handled exits
ApproveRead(p) ==
    /\ proc[p].pc = "ap_read"
    /\ LET action == get_action(actions, proc[p].user, proc[p].aid)
       IN  proc' = [proc EXCEPT ![p] =
              IF approve_not_found(action)
              THEN [Finish(p, NotFound(proc[p].aid)) EXCEPT !.action = action]
              ELSE IF \A a \in action : approve_is_noop(a.status)
              THEN [Finish(p, Ok(action)) EXCEPT !.action = action]
              ELSE [proc[p] EXCEPT !.pc = "ap_exec", !.action = action]]
    /\ UNCHANGED <<points, actions, toolLog, ingested, nops, hq, hres, engineFailed, decidedOn>>

\* result = execute_action(action): the tool runs; an exception raised by
\* the tool or by execute_tool leaves approve_action and the handler
ApproveExecute(p) ==
    /\ proc[p].pc = "ap_exec"
    /\ \E executor \in BOOLEAN, raw \in RawResults :
          LET out == execute_tool(executor, raw)
              st  == IF out.raised THEN "raised" ELSE execute_action_status(out.env)
          IN  /\ toolLog' = IF out.invoked
                             THEN Append(toolLog, [id |-> proc[p].aid, status |-> st])
                             ELSE toolLog
              /\ proc' = [proc EXCEPT ![p] =
                    IF out.raised THEN Finish(p, ServerError)
                    ELSE [proc[p] EXCEPT !.pc = "ap_write",
                             !.result = [status |-> st,
                                         success |-> PyTruthy(dict_get(out.env, "success", "False")),
                                         detail |-> out.env]]]
    /\ UNCHANGED <<points, actions, ingested, nops, hq, hres, engineFailed, decidedOn>>

\* updated = update_action_status(action_id, result.status); return updated or action
ApproveWrite(p) ==
    /\ proc[p].pc = "ap_write"
    /\ actions' = update_action_status(actions, proc[p].user, proc[p].aid, proc[p].result.status)
    /\ LET updated == get_action(actions', proc[p].user, proc[p].aid)
       IN  proc' = [proc EXCEPT ![p] = Finish(p, Ok(IF updated # {} THEN updated ELSE proc[p].action))]
    /\ UNCHANGED <<points, toolLog, ingested, nops, hq, hres, engineFailed, decidedOn>>

SkipStart(p, mode) ==
    /\ CanStart(p, "skip", mode)
    /\ \E u \in Owners, id \in ActionIds :
          proc' = [proc EXCEPT ![p] = [IdleProc EXCEPT !.pc = "sk_read", !.op = "skip",
                                                       !.user = u, !.aid = id]]
    /\ nops' = nops + 1
    /\ UNCHANGED <<points, actions, toolLog, ingested, hq, hres, engineFailed, decidedOn>>

SkipRead(p) ==
    /\ proc[p].pc = "sk_read"
    /\ LET action == get_action(actions, proc[p].user, proc[p].aid)
       IN  proc' = [proc EXCEPT ![p] =
              IF skip_not_found(action)
              THEN [Finish(p, NotFound(proc[p].aid)) EXCEPT !.action = action]
              ELSE [proc[p] EXCEPT !.pc = "sk_write", !.action = action]]
    /\ UNCHANGED <<points, actions, toolLog, ingested, nops, hq, hres, engineFailed, decidedOn>>

\* updated = update_action_status(action_id, "skipped"); return updated or action
SkipWrite(p) ==
    /\ proc[p].pc = "sk_write"
    /\ actions' = update_action_status(actions, proc[p].user, proc[p].aid, skip_status)
    /\ LET updated == get_action(actions', proc[p].user, proc[p].aid)
       IN  proc' = [proc EXCEPT ![p] = Finish(p, Ok(IF updated # {} THEN updated ELSE proc[p].action))]
    /\ UNCHANGED <<points, toolLog, ingested, nops, hq, hres, engineFailed, decidedOn>>

(***************************************************************************)
(* Ingestion (backend/orchestrator.py, _process_contexts).  The decision   *)
(* engine (backend/llm.py) answers with a list of tool calls; a tool name  *)
(* that is no ActionType makes ActionType(name) raise inside               *)
(* decide_actions_for_context.                                             *)
(***************************************************************************)
ActionTypes == {"create_todo", "gmail_send_email"}

\* the tool calls of a model response, by tool name; "bogus_tool" is a name
\* the model made up
ModelResponses ==
    { <<>>, <<"create_todo">>, <<"gmail_send_email", "create_todo">>,
      <<"bogus_tool">>, <<"create_todo", "bogus_tool">> }

parse_tool_calls_dropping(calls) ==
    LET Known(name) == name \in ActionTypes
    IN  [ok |-> TRUE, actions |-> SelectSeq(calls, Known)]

parse_tool_calls_reversed(calls) ==
    IF \E i \in 1..Len(calls) : calls[i] \notin ActionTypes
    THEN [ok |-> FALSE, actions |-> <<>>]
    ELSE [ok |-> TRUE, actions |-> [i \in 1..Len(calls) |-> calls[Len(calls) + 1 - i]]]

\* the loop over response.tool_calls in decide_actions_for_context: each call
\* goes through _parse_tool_call, where ActionType(name) raises on a name
\* that is no member of the enum; the list is returned only when all parsed
parse_tool_calls(calls) ==
    IF \E i \in 1..Len(calls) : calls[i] \notin ActionTypes
    THEN [ok |-> FALSE, actions |-> <<>>]
    ELSE [ok |-> TRUE, actions |-> calls]

\* the batches the sources hand to run_ingest_and_decide, one tenant each
Batches ==
    {<<it>> : it \in SourceItems}

\* a fetch that returns two items of one tenant
LongBatches ==
    { <<a, b>> : a \in {it \in SourceItems : it.user_id = "u1" /\ it.source_type = "meeting_transcript"},
                 b \in {it \in SourceItems : it.user_id = "u1" /\ it.source_type = "gmail"} }

BatchesFor(mode) == IF mode = "batch" THEN Batches \cup LongBatches ELSE Batches

Cur(p) == proc[p].batch[proc[p].idx]

IngestStart(p, mode) ==
    /\ CanStart(p, "ingest", mode)
    /\ \E b \in BatchesFor(mode) :
          /\ proc' = [proc EXCEPT ![p] =
                [IdleProc EXCEPT !.pc = "ing_check", !.op = "ingest", !.user = b[1].user_id,
                                 !.batch = [i \in 1..Len(b) |-> to_context(b[i], nextCtx + i - 1)],
                                 !.idx = 1]]
    /\ nops' = nops + 1
    /\ UNCHANGED <<points, actions, toolLog, ingested, hq, hres, engineFailed, decidedOn>>

\* if store.check_exist(context.source_id, context.source_type): continue
IngestCheck(p) ==
    /\ proc[p].pc = "ing_check"
    /\ LET prior == KeyOf(Cur(p)) \in ingested
           dup   == check_exist(points, Cur(p).source_id, Cur(p).source_type)
       IN  /\ proc' = [proc EXCEPT ![p] =
                 [proc[p] EXCEPT !.pc = IF dup THEN "ing_next" ELSE "ing_save",
                                 !.flags = [NoFlags EXCEPT !.prior = prior, !.dup = dup],
                                 !.trail = <<"check">>,
                                 !.outcomes = IF dup THEN Append(@, [dup |-> TRUE, calls |-> <<>>])
                                              ELSE @]]
           /\ ingested' = IF dup THEN ingested \cup {KeyOf(Cur(p))} ELSE ingested
    /\ UNCHANGED <<points, actions, toolLog, nops, hq, hres, engineFailed, decidedOn>>

\* save_context(context): embed context_text, upsert the point
IngestSave(p) ==
    /\ proc[p].pc = "ing_save"
    /\ points' = upsert(points, Cur(p))
    /\ proc' = [proc EXCEPT ![p] = [proc[p] EXCEPT !.pc = "ing_hist", !.flags.wrote = TRUE,
                                                   !.trail = Append(@, "store")]]
    /\ UNCHANGED <<actions, toolLog, ingested, nops, hq, hres, engineFailed, decidedOn>>

\* get_relevant_history(context, history_limit // 2, history_limit // 2)
IngestHistory(p) ==
    /\ proc[p].pc = "ing_hist"
    /\ \E h \in get_relevant_history(points, actions, proc[p].user, Cur(p),
                                     DEFAULT_HISTORY_LIMIT \div 2, DEFAULT_HISTORY_LIMIT \div 2) :
          proc' = [proc EXCEPT ![p] = [proc[p] EXCEPT !.pc = "ing_decide",
                                                      !.hist = <<Ids(h[1]), Ids(h[2])>>,
                                                      !.trail = Append(@, "history")]]
    /\ UNCHANGED <<points, actions, toolLog, ingested, nops, hq, hres, engineFailed, decidedOn>>

\* decide_actions_for_context: every tool call is parsed before any is returned
IngestDecide(p) ==
    /\ proc[p].pc = "ing_decide"
    /\ \E calls \in ModelResponses :
          LET parsed == parse_tool_calls(calls)
          IN  IF ~parsed.ok
              THEN /\ proc' = [proc EXCEPT ![p] =
                         [Finish(p, ServerError) EXCEPT !.calls = calls, !.flags.engine = TRUE,
                                                        !.trail = Append(@, "decide")]]
                   /\ engineFailed' = engineFailed \cup {KeyOf(Cur(p))}
                   /\ decidedOn' = decidedOn
              ELSE /\ proc' = [proc EXCEPT ![p] =
                         [proc[p] EXCEPT !.pc = "ing_actions", !.calls = calls,
                                         !.decided = parsed.actions, !.k = 0,
                                         !.hist = <<<<>>, <<>>>>, !.flags.engine = TRUE,
                                         !.trail = Append(@, "decide")]]
                   /\ engineFailed' = engineFailed
                   /\ decidedOn' = decidedOn \cup {[context_id |-> Cur(p).id,
                                                     n |-> Len(parsed.actions)]}
    /\ UNCHANGED <<points, actions, toolLog, ingested, nops, hq, hres>>

\* one turn of "for action_type, payload, confidence in actions": save_action
IngestSaveAction(p) ==
    /\ proc[p].pc = "ing_actions"
    /\ proc[p].k < Len(proc[p].decided)
    /\ actions' = save_action(actions,
          [id |-> nextAction, context_id |-> Cur(p).id, user_id |-> proc[p].user,
           type |-> proc[p].decided[proc[p].k + 1], status |-> "pending",
           source_type |-> Cur(p).source_type, payload |-> "decided", result |-> <<>>])
    /\ proc' = [proc EXCEPT ![p] = [proc[p] EXCEPT !.k = @ + 1, !.flags.created = @ + 1,
                                                   !.trail = Append(@, "action")]]
    /\ UNCHANGED <<points, toolLog, ingested, nops, hq, hres, engineFailed, decidedOn>>

\* store.update_processed(context.id): set_payload, whose failure
\* update_processed logs and answers with False; the loop ignores the answer
IngestMark(p) ==
    /\ proc[p].pc = "ing_actions"
    /\ proc[p].k = Len(proc[p].decided)
    /\ \E ok \in BOOLEAN :
          points' = IF ok THEN update_processed(points, Cur(p).id) ELSE points
    /\ ingested' = ingested \cup {KeyOf(Cur(p))}
    /\ proc' = [proc EXCEPT ![p] =
          [proc[p] EXCEPT !.pc = "ing_next",
                          !.trail = Append(@, "mark"),
                          !.outcomes = Append(@, [dup |-> FALSE, calls |-> proc[p].calls])]]
    /\ UNCHANGED <<actions, toolLog, nops, hq, hres, engineFailed, decidedOn>>

\* the for loop goes to the next context of the batch, or returns
IngestNext(p) ==
    /\ proc[p].pc = "ing_next"
    /\ proc' = [proc EXCEPT ![p] =
          IF proc[p].idx < Len(proc[p].batch)
          THEN [proc[p] EXCEPT !.pc = "ing_check", !.idx = @ + 1, !.calls = <<>>, !.decided = <<>>,
                               !.k = 0, !.trail = <<>>]
          ELSE [Finish(p, Ok({})) EXCEPT !.calls = <<>>, !.decided = <<>>, !.k = 0]]
    /\ UNCHANGED <<points, actions, toolLog, ingested, nops, hq, hres, engineFailed, decidedOn>>

\* a store, embedding or model call raises: the exception leaves _process_contexts
IngestRaise(p) ==
    /\ proc[p].pc \in {"ing_check", "ing_save", "ing_hist", "ing_decide", "ing_actions"}
    /\ proc' = [proc EXCEPT ![p] = [Finish(p, ServerError) EXCEPT !.hist = <<<<>>, <<>>>>]]
    /\ engineFailed' = IF proc[p].pc = "ing_decide" THEN engineFailed \cup {KeyOf(Cur(p))}
                       ELSE engineFailed
    /\ UNCHANGED <<points, actions, toolLog, ingested, nops, hq, hres, decidedOn>>

(***************************************************************************)
(* Gmail ingestion (backend/integrations/gmail/orchestrator.py):           *)
(* sync_recent_emails and process_new_emails hand the fetched emails to    *)
(* _process_emails, the first with generate_actions = False by default,    *)
(* the second with generate_actions = True.                                *)
(***************************************************************************)
GmailItems == {it \in SourceItems : it.source_type = "gmail"}

\* _process_emails(emails, generate_actions): the emails of one fetch
GmailStart(p, mode) ==
    /\ CanStart(p, "gmail", mode)
    /\ \E it \in GmailItems, generate_actions \in BOOLEAN, sent \in BOOLEAN :
          proc' = [proc EXCEPT ![p] =
                [IdleProc EXCEPT !.pc = "gm_check", !.op = "gmail", !.user = it.user_id,
                                 !.batch = <<to_context(it, nextCtx)>>, !.idx = 1,
                                 !.opts = [generate_actions |-> generate_actions, sent |-> sent]]]
    /\ nops' = nops + 1
    /\ UNCHANGED <<points, actions, toolLog, ingested, hq, hres, engineFailed, decidedOn>>

\* if store.check_exist(...): continue
\* if generate_actions and "SENT" not in email.labels: ... (else straight to save_context)
GmailCheck(p) ==
    /\ proc[p].pc = "gm_check"
    /\ LET prior == KeyOf(Cur(p)) \in ingested
           dup   == check_exist(points, Cur(p).source_id, Cur(p).source_type)
           gen   == proc[p].opts.generate_actions /\ ~proc[p].opts.sent
       IN  /\ proc' = [proc EXCEPT ![p] =
                 [proc[p] EXCEPT !.pc = IF dup THEN "gm_next"
                                        ELSE IF gen THEN "gm_hist" ELSE "gm_save",
                                 !.flags = [NoFlags EXCEPT !.prior = prior, !.dup = dup],
                                 !.trail = <<"check">>,
                                 !.outcomes = IF dup THEN Append(@, [dup |-> TRUE, calls |-> <<>>])
                                              ELSE @]]
           /\ ingested' = IF dup THEN ingested \cup {KeyOf(Cur(p))} ELSE ingested
    /\ UNCHANGED <<points, actions, toolLog, nops, hq, hres, engineFailed, decidedOn>>

\* get_relevant_history(current_context=context, history_limit // 2, history_limit // 2)
GmailHistory(p) ==
    /\ proc[p].pc = "gm_hist"
    /\ \E h \in get_relevant_history(points, actions, proc[p].user, Cur(p),
                                     DEFAULT_HISTORY_LIMIT \div 2, DEFAULT_HISTORY_LIMIT \div 2) :
          proc' = [proc EXCEPT ![p] = [proc[p] EXCEPT !.pc = "gm_decide",
                                                      !.hist = <<Ids(h[1]), Ids(h[2])>>,
                                                      !.trail = Append(@, "history")]]
    /\ UNCHANGED <<points, actions, toolLog, ingested, nops, hq, hres, engineFailed, decidedOn>>

\* actions = decide_actions_for_context(context, similar_history, recent_history)
GmailDecide(p) ==
    /\ proc[p].pc = "gm_decide"
    /\ \E calls \in ModelResponses :
          LET parsed == parse_tool_calls(calls)
          IN  IF ~parsed.ok
              THEN /\ proc' = [proc EXCEPT ![p] =
                         [Finish(p, ServerError) EXCEPT !.calls = calls, !.flags.engine = TRUE,
                                                        !.trail = Append(@, "decide")]]
                   /\ engineFailed' = engineFailed \cup {KeyOf(Cur(p))}
                   /\ decidedOn' = decidedOn
              ELSE /\ proc' = [proc EXCEPT ![p] =
                         [proc[p] EXCEPT !.pc = "gm_actions", !.calls = calls,
                                         !.decided = parsed.actions, !.k = 0,
                                         !.hist = <<<<>>, <<>>>>, !.flags.engine = TRUE,
                                         !.trail = Append(@, "decide")]]
                   /\ engineFailed' = engineFailed
                   /\ decidedOn' = decidedOn \cup {[context_id |-> Cur(p).id,
                                                     n |-> Len(parsed.actions)]}
    /\ UNCHANGED <<points, actions, toolLog, ingested, nops, hq, hres>>

\* one turn of "for action_type, payload, confidence in actions": save_action
GmailSaveAction(p) ==
    /\ proc[p].pc = "gm_actions"
    /\ proc[p].k < Len(proc[p].decided)
    /\ actions' = save_action(actions,
          [id |-> nextAction, context_id |-> Cur(p).id, user_id |-> proc[p].user,
           type |-> proc[p].decided[proc[p].k + 1], status |-> "pending",
           source_type |-> Cur(p).source_type, payload |-> "decided", result |-> <<>>])
    /\ proc' = [proc EXCEPT ![p] = [proc[p] EXCEPT !.k = @ + 1, !.flags.created = @ + 1,
                                                   !.trail = Append(@, "action")]]
    /\ UNCHANGED <<points, toolLog, ingested, nops, hq, hres, engineFailed, decidedOn>>

\* save_context(context); saved_contexts.append(context): after the action
\* loop, or right after the duplicate check when no actions are generated
GmailSave(p) ==
    /\ \/ proc[p].pc = "gm_save"
       \/ proc[p].pc = "gm_actions" /\ proc[p].k = Len(proc[p].decided)
    /\ points' = upsert(points, Cur(p))
    /\ proc' = [proc EXCEPT ![p] = [proc[p] EXCEPT !.pc = "gm_mark", !.flags.wrote = TRUE,
                                                   !.trail = Append(@, "store")]]
    /\ UNCHANGED <<actions, toolLog, ingested, nops, hq, hres, engineFailed, decidedOn>>

\* store.update_processed(context.id), its answer ignored
GmailMark(p) ==
    /\ proc[p].pc = "gm_mark"
    /\ \E ok \in BOOLEAN :
          points' = IF ok THEN update_processed(points, Cur(p).id) ELSE points
    /\ ingested' = ingested \cup {KeyOf(Cur(p))}
    /\ proc' = [proc EXCEPT ![p] =
          [proc[p] EXCEPT !.pc = "gm_next",
                          !.trail = Append(@, "mark"),
                          !.outcomes = Append(@, [dup |-> FALSE, calls |-> proc[p].calls])]]
    /\ UNCHANGED <<actions, toolLog, nops, hq, hres, engineFailed, decidedOn>>

\* the for loop is over: return saved_contexts
GmailNext(p) ==
    /\ proc[p].pc = "gm_next"
    /\ proc' = [proc EXCEPT ![p] =
          [Finish(p, Ok({})) EXCEPT !.calls = <<>>, !.decided = <<>>, !.k = 0]]
    /\ UNCHANGED <<points, actions, toolLog, ingested, nops, hq, hres, engineFailed, decidedOn>>

\* a store, embedding or model call raises: the exception leaves _process_emails
GmailRaise(p) ==
    /\ proc[p].pc \in {"gm_check", "gm_hist", "gm_decide", "gm_actions", "gm_save"}
    /\ proc' = [proc EXCEPT ![p] = [Finish(p, ServerError) EXCEPT !.hist = <<<<>>, <<>>>>]]
    /\ engineFailed' = IF proc[p].pc = "gm_decide" THEN engineFailed \cup {KeyOf(Cur(p))}
                       ELSE engineFailed
    /\ UNCHANGED <<points, actions, toolLog, ingested, nops, hq, hres, decidedOn>>

(***************************************************************************)
(* Payload edit (backend/api.py, PATCH /actions/{action_id}).              *)
(***************************************************************************)
Payloads == {"decided", "edited"}

\* update_action_payload(user_id, action_id, payload): the store after the
\* owner's row got the new payload; the call answers with that row, or with
\* nothing when the owner has no such row
update_action_payload(rows, user_id, action_id, payload) ==
    {IF a.id = action_id /\ a.user_id = user_id THEN [a EXCEPT !.payload = payload] ELSE a :
        a \in rows}

\* update_action: the HTTPException(404) is raised inside the try block, and
\* "except Exception" turns every exception of the block into a 500
update_action_response(updated, action_id) ==
    IF updated = {} THEN [code |-> 500, detail |-> action_id, body |-> {}]
    ELSE Ok(updated)

UpdateStart(p, mode) ==
    /\ CanStart(p, "update", mode)
    /\ \E user \in Owners, action_id \in ActionIds :
          proc' = [proc EXCEPT ![p] = [IdleProc EXCEPT !.pc = "up_write", !.op = "update",
                                                       !.user = user, !.aid = action_id]]
    /\ nops' = nops + 1
    /\ UNCHANGED <<points, actions, toolLog, ingested, hq, hres, engineFailed, decidedOn>>

\* updated = update_action_payload(user.id, action_id, payload.get("payload", {}))
UpdateWrite(p) ==
    /\ proc[p].pc = "up_write"
    /\ \E payload \in Payloads :
          LET rows    == update_action_payload(actions, proc[p].user, proc[p].aid, payload)
              updated == get_action(rows, proc[p].user, proc[p].aid)
          IN  /\ actions' = rows
              /\ proc' = [proc EXCEPT ![p] =
                    [Finish(p, update_action_response(updated, proc[p].aid))
                        EXCEPT !.action = get_action(actions, proc[p].user, proc[p].aid)]]
    /\ UNCHANGED <<points, toolLog, ingested, nops, hq, hres, engineFailed, decidedOn>>

\* the steps of the Gmail ingestion and of the payload edit
ApiStep(p) ==
    \/ GmailCheck(p) \/ GmailHistory(p) \/ GmailDecide(p) \/ GmailSaveAction(p)
    \/ GmailSave(p) \/ GmailMark(p) \/ GmailNext(p) \/ GmailRaise(p)
    \/ UpdateWrite(p)

(***************************************************************************)
(* The system: requests of all tenants, interleaved at their suspension    *)
(* points (Spec) or served one after another (SpecSeq).                    *)
(***************************************************************************)
NoContext == [id |-> 0, user_id |-> "none", source_type |-> "none", source_id |-> "none",
              timestamp |-> 0, vec |-> 0, processed |-> FALSE]

NoQuery == [cur |-> NoContext, semantic_limit |-> 0, recent_limit |-> 0]

Init ==
    /\ points = {}
    /\ actions = {}
    /\ proc = [p \in Procs |-> IdleProc]
    /\ toolLog = <<>>
    /\ ingested = {}
    /\ nops = 0
    /\ hq = NoQuery
    /\ hres = <<<<>>, <<>>>>
    /\ engineFailed = {}
    /\ decidedOn = {}

Step(p) ==
    \/ ApproveRead(p) \/ ApproveExecute(p) \/ ApproveWrite(p)
    \/ SkipRead(p) \/ SkipWrite(p)
    \/ IngestCheck(p) \/ IngestSave(p) \/ IngestHistory(p) \/ IngestDecide(p)
    \/ IngestSaveAction(p) \/ IngestMark(p) \/ IngestNext(p) \/ IngestRaise(p)
    \/ Return(p)

Next ==
    \E p \in Procs :
        \/ IngestStart(p, "all") \/ ApproveStart(p, "all") \/ SkipStart(p, "all")
        \/ Step(p)

Spec == Init /\ [][Next]_vars

NextSeq ==
    \E p \in Procs :
        \/ IngestStart(p, "seq") \/ ApproveStart(p, "seq") \/ SkipStart(p, "seq")
        \/ Step(p)

SpecSeq == Init /\ [][NextSeq]_vars

NextLifecycle ==
    \E p \in Procs :
        \/ IngestStart(p, "lifecycle") \/ ApproveStart(p, "lifecycle") \/ SkipStart(p, "lifecycle")
        \/ Step(p)

SpecLifecycle == Init /\ [][NextLifecycle]_vars

NextIngest ==
    \E p \in Procs :
        \/ IngestStart(p, "ingest") \/ ApproveStart(p, "ingest") \/ SkipStart(p, "ingest")
        \/ Step(p)

SpecIngest == Init /\ [][NextIngest]_vars

\* requests served one after another, fetches of two items included
NextBatch ==
    \E p \in Procs :
        \/ IngestStart(p, "batch") \/ ApproveStart(p, "batch") \/ SkipStart(p, "batch")
        \/ Step(p)

SpecBatch == Init /\ [][NextBatch]_vars

\* every handler, Gmail ingestion and payload edit included, one request
\* after another
NextApi ==
    \E p \in Procs :
        \/ IngestStart(p, "seq") \/ ApproveStart(p, "seq") \/ SkipStart(p, "seq")
        \/ GmailStart(p, "seq") \/ UpdateStart(p, "seq")
        \/ Step(p) \/ ApiStep(p)

SpecApi == Init /\ [][NextApi]_vars

(***************************************************************************)
(* Gmail incremental sync on its own (backend/integrations/gmail/          *)
(* client.py).  The mailbox is the sequence of important messages added    *)
(* so far; message m was added by history record m, so the mailbox's       *)
(* current history id is the number of its messages.  The stored history   *)
(* id is 0 while none was saved.  The changes since the stored id fit one  *)
(* page of the history response.                                           *)
(***************************************************************************)
FULL_FETCH_MAX == 10

\* _fetch_email_by_id: the message, or None when messages().get raises
\* HttpError; fetched is the set of ids whose get succeeds
fetch_email_by_id(msg_id, fetched) == IF msg_id \in fetched THEN {msg_id} ELSE {}

\* fetch_recent_emails(max_results=10): the latest messages that could be
\* fetched; the profile's history id is saved when the listing is not empty
fetch_recent_emails(history_id, mailbox, fetched, list_ok) ==
    LET messages == {m \in 1..mailbox : m > mailbox - FULL_FETCH_MAX}
    IN  IF ~list_ok THEN [listed |-> {}, emails |-> {}, history_id |-> history_id]
        ELSE [listed |-> {},
              emails |-> UNION {fetch_email_by_id(m, fetched) : m \in messages},
              history_id |-> IF messages # {} THEN mailbox ELSE history_id]

\* fetch_new_emails: history().list from the stored id, each added message
\* fetched by id and kept "if email", then results["historyId"] saved
fetch_new_emails(history_id, mailbox, fetched, outcome, list_ok) ==
    IF history_id = 0 THEN fetch_recent_emails(history_id, mailbox, fetched, list_ok)
    ELSE IF outcome = "expired" THEN fetch_recent_emails(history_id, mailbox, fetched, list_ok)
    ELSE IF outcome = "error" THEN [listed |-> {}, emails |-> {}, history_id |-> history_id]
    ELSE LET listed == (history_id + 1)..mailbox
         IN  [listed |-> listed,
              emails |-> UNION {fetch_email_by_id(m, fetched) : m \in listed},
              history_id |-> mailbox]

NoSync == [listed |-> {}, emails |-> {}, delivered |-> {}]

SyncInit ==
    /\ points = {}
    /\ actions = {}
    /\ proc = [p \in Procs |-> IdleProc]
    /\ toolLog = <<>>
    /\ ingested = {}
    /\ nops = 0
    /\ hq = [mailbox |-> 0, history_id |-> 0]
    /\ hres = NoSync
    /\ engineFailed = {}
    /\ decidedOn = {}

\* an important message arrives in the mailbox
MailArrives ==
    /\ hq.mailbox < MaxMail
    /\ hq' = [hq EXCEPT !.mailbox = @ + 1]
    /\ UNCHANGED <<points, actions, proc, toolLog, ingested, nops, hres, engineFailed, decidedOn>>

\* one call of fetch_new_emails
FetchNewEmails ==
    /\ \E fetched \in SUBSET (1..hq.mailbox), outcome \in {"ok", "expired", "error"},
          list_ok \in BOOLEAN :
          LET r == fetch_new_emails(hq.history_id, hq.mailbox, fetched, outcome, list_ok)
          IN  /\ hq' = [hq EXCEPT !.history_id = r.history_id]
              /\ hres' = [listed |-> r.listed, emails |-> r.emails,
                          delivered |-> hres.delivered \cup r.emails]
    /\ UNCHANGED <<points, actions, proc, toolLog, ingested, nops, engineFailed, decidedOn>>

NextSync == MailArrives \/ FetchNewEmails

SpecSync == SyncInit /\ [][NextSync]_vars

(***************************************************************************)
(* History assembly on its own: get_relevant_history applied to a store    *)
(* and a current context drawn from a pool of contexts of two tenants,     *)
(* with equal timestamps and equal embeddings among them.                  *)
(***************************************************************************)
HistPool ==
    { [id |-> 1, user_id |-> "u1", source_type |-> "gmail", source_id |-> "s1", timestamp |-> 1, vec |-> 0],
      [id |-> 2, user_id |-> "u1", source_type |-> "gmail", source_id |-> "s2", timestamp |-> 2, vec |-> 1],
      [id |-> 3, user_id |-> "u1", source_type |-> "slack", source_id |-> "s3", timestamp |-> 2, vec |-> 1],
      [id |-> 4, user_id |-> "u2", source_type |-> "gmail", source_id |-> "s4", timestamp |-> 3, vec |-> 0],
      [id |-> 5, user_id |-> "u1", source_type |-> "gmail", source_id |-> "s5", timestamp |-> 4, vec |-> 2] }

HistContexts ==
    { [id |-> c.id, user_id |-> c.user_id, source_type |-> c.source_type, source_id |-> c.source_id,
       timestamp |-> c.timestamp, vec |-> c.vec, processed |-> b] : c \in HistPool, b \in BOOLEAN }

HistInit ==
    /\ points \in {S \in SUBSET HistContexts : \A c, d \in S : c.id = d.id => c = d}
    /\ actions = {}
    /\ proc = [p \in Procs |-> IdleProc]
    /\ toolLog = <<>>
    /\ ingested = {}
    /\ nops = 0
    /\ hq = NoQuery
    /\ hres = <<<<>>, <<>>>>
    /\ engineFailed = {}
    /\ decidedOn = {}

\* the current context is a stored one, or one that is not stored (yet)
HistCurrent ==
    points \cup {c \in HistContexts : ~c.processed /\ \A d \in points : d.id # c.id}

HistAssemble ==
    /\ hq = NoQuery
    /\ \E cur \in HistCurrent, sl \in 0..MaxLimit, rl \in 0..MaxLimit :
          /\ hq' = [cur |-> cur, semantic_limit |-> sl, recent_limit |-> rl]
          /\ hres' \in get_relevant_history(points, actions, cur.user_id, cur, sl, rl)
    /\ UNCHANGED <<points, actions, proc, toolLog, ingested, nops, engineFailed, decidedOn>>

SpecHist == HistInit /\ [][HistAssemble]_vars

(***************************************************************************)
(* Tool-call parsing on its own (backend/llm.py, _parse_tool_call).  A     *)
(* tool call is a name and an argument dict; an argument value is a float, *)
(* an int, a string that reads as a number, any other string, or null.     *)
(* Confidences are counted in hundredths.                                  *)
(***************************************************************************)
ConfidenceDefault == 70

ArgKeys == {"confidence", "title", "to_email"}

ArgValues ==
    { [kind |-> "float", v |-> 0], [kind |-> "float", v |-> 70], [kind |-> "float", v |-> 90],
      [kind |-> "int", v |-> 100], [kind |-> "numstr", v |-> 80],
      [kind |-> "text", v |-> 0], [kind |-> "null", v |-> 0] }

ToolNames == ActionTypes \cup {"bogus_tool"}

ToolCalls ==
    { [name |-> n, args |-> a] : n \in ToolNames,
                                 a \in UNION {[K -> ArgValues] : K \in SUBSET ArgKeys} }

\* float(x): the number for a float, an int or a numeric string; raises otherwise
to_float(x) == IF x.kind \in {"float", "int", "numstr"} THEN {x.v} ELSE {}

ParseError == [ok |-> FALSE, action_type |-> "none", payload |-> <<>>, confidence |-> 0]

\* _parse_tool_call: confidence = float(args.pop("confidence", 0.7)), then
\* action_type = ActionType(name); returns (action_type, args, confidence)
parse_tool_call(tool_call) ==
    LET popped  == dict_get(tool_call.args, "confidence", [kind |-> "float", v |-> ConfidenceDefault])
        payload == dict_without(tool_call.args, "confidence")
    IN  IF to_float(popped) = {} \/ tool_call.name \notin ActionTypes
        THEN ParseError
        ELSE [ok |-> TRUE, action_type |-> tool_call.name, payload |-> payload,
              confidence |-> CHOOSE v \in to_float(popped) : TRUE]

ParseInit ==
    /\ points = {}
    /\ actions = {}
    /\ proc = [p \in Procs |-> IdleProc]
    /\ toolLog = <<>>
    /\ ingested = {}
    /\ nops = 0
    /\ hq = NoQuery
    /\ hres = ParseError
    /\ engineFailed = {}
    /\ decidedOn = {}

ParseCall ==
    /\ hq = NoQuery
    /\ \E tc \in ToolCalls :
          /\ hq' = tc
          /\ hres' = parse_tool_call(tc)
    /\ UNCHANGED <<points, actions, proc, toolLog, ingested, nops, engineFailed, decidedOn>>

SpecParse == ParseInit /\ [][ParseCall]_vars

(***************************************************************************)
(* The dispatcher on its own: execute_tool applied to every result shape,  *)
(* for an action type with and without a registered executor.              *)
(***************************************************************************)
NoOutcome == [invoked |-> FALSE, raised |-> FALSE, env |-> <<>>]

DispatchInit ==
    /\ points = {}
    /\ actions = {}
    /\ proc = [p \in Procs |-> IdleProc]
    /\ toolLog = <<>>
    /\ ingested = {}
    /\ nops = 0
    /\ hq = NoQuery
    /\ hres = NoOutcome
    /\ engineFailed = {}
    /\ decidedOn = {}

DispatchCall ==
    /\ hq = NoQuery
    /\ \E executor \in BOOLEAN, r \in ToolResults :
          /\ hq' = [executor |-> executor, result |-> r]
          /\ hres' = execute_tool(executor, r)
    /\ UNCHANGED <<points, actions, proc, toolLog, ingested, nops, engineFailed, decidedOn>>

SpecDispatch == DispatchInit /\ [][DispatchCall]_vars

(***************************************************************************)
(* Properties.                                                             *)
(***************************************************************************)
Invocations(id) == {i \in DOMAIN toolLog : toolLog[i].id = id}

ExecutedBefore(id) == \E i \in Invocations(id) : toolLog[i].status = "executed"

Stored(p) == get_action(actions, proc[p].user, proc[p].aid)

ReadStatus(p, S) == \E a \in proc[p].action : a.status \in S

\* the step is the read of an approve call that finds the action
ApproveReads(p) ==
    /\ proc[p].pc = "ap_read"
    /\ proc'[p].pc # "ap_read"
    /\ Stored(p) # {}

C1_FirstSucceeded ==
    \A i \in DOMAIN toolLog :
        (toolLog[i].status \in {"executed", "skipped"} /\ \A j \in Invocations(toolLog[i].id) : i <= j)
            => Invocations(toolLog[i].id) = {i}

C1_LaterApproveNoop ==
    \A p \in Procs :
        (ApproveReads(p) /\ ExecutedBefore(proc[p].aid))
            => /\ actions' = actions
               /\ toolLog' = toolLog
               /\ proc'[p].pc = "done"
               /\ proc'[p].ret = Ok(Stored(p))

\* C1: with approve calls served one after another, once an approve has run
\* the tool successfully (and so set executed), every later approve of that
\* action returns the stored record, changes nothing and runs no tool; an
\* action whose first tool run succeeded has exactly one tool run.
C1_ApproveIdempotent == [][C1_LaterApproveNoop]_vars /\ []C1_FirstSucceeded

C1_Witness ==
    \E p \in Procs :
        /\ proc[p].pc = "done" /\ proc[p].op = "approve" /\ proc[p].ret.code = 200
        /\ proc[p].result = NoResult
        /\ ExecutedBefore(proc[p].aid)
        /\ ReadStatus(p, {"executed"})

\* C2: two approve calls of one pending action that overlap never both run
\* the action's tool.
C2_NoDoubleExecute ==
    \A p, q \in Procs :
        (p # q /\ proc[p].pc = "ap_write" /\ proc[q].pc = "ap_write"
              /\ proc[p].aid = proc[q].aid /\ proc[p].user = proc[q].user)
            => ~(ReadStatus(p, {"pending"}) /\ ReadStatus(q, {"pending"}))

WithKey(k) == {c \in points : KeyOf(c) = k}

\* C3: when the pipeline has run to its end on a key before, a further run on
\* that key leaves exactly one stored context for it, writes no context, does
\* not call the decision engine and creates no action.
C3_SecondRunNoop ==
    \A p \in Procs :
        (proc[p].pc = "ing_next" /\ proc[p].flags.prior)
            => /\ Cardinality(WithKey(KeyOf(Cur(p)))) = 1
               /\ ~proc[p].flags.wrote
               /\ ~proc[p].flags.engine
               /\ proc[p].flags.created = 0

\* C4: in every reachable state at most one stored context exists per
\* (owner, source_id, source_type).
C4_OnePerKey ==
    \A c, d \in points : KeyOf(c) = KeyOf(d) => c = d

\* C5: an approve of an action in error status that has ended has run the
\* dispatcher again; the action is executed when that execution reported
\* success and is still in error when it failed again.
C5_ErrorRetry ==
    \A p \in Procs :
        (proc[p].pc = "done" /\ proc[p].op = "approve" /\ ReadStatus(p, {"error"}))
            => /\ proc[p].result # NoResult \/ proc[p].ret.code = 500
               /\ proc[p].result.success => \A a \in Stored(p) : a.status = "executed"
               /\ ~proc[p].result.success => \A a \in Stored(p) : a.status = "error"

\* C6: skip of an action that is executed or skipped changes nothing and
\* returns the record as it was.
C6_SkipTerminalNoop ==
    \A p \in Procs :
        (proc[p].pc = "done" /\ proc[p].op = "skip" /\ ReadStatus(p, {"executed", "skipped"}))
            => /\ Stored(p) = proc[p].action
               /\ proc[p].ret = Ok(proc[p].action)

C7_SkipResult ==
    \A p \in Procs :
        (proc[p].pc = "done" /\ proc[p].op = "skip" /\ ReadStatus(p, {"pending", "error"}))
            => /\ proc[p].ret.code = 200
               /\ proc[p].ret.body # {}
               /\ \A a \in proc[p].ret.body : a.status = "skipped"

C7_SkipWrites ==
    \A p \in Procs :
        /\ (proc[p].op = "skip" /\ proc'[p] # proc[p]) => toolLog' = toolLog
        /\ (proc[p].pc = "sk_write" /\ proc'[p].pc = "done" /\ ReadStatus(p, {"pending", "error"}))
              => \A a \in get_action(actions', proc[p].user, proc[p].aid) : a.status = "skipped"

\* C7: skip of a pending or error action succeeds and sets the status to
\* skipped; no step of a skip call runs a tool.
C7_SkipPending == [][C7_SkipWrites]_vars /\ []C7_SkipResult

C7_Witness ==
    \E p \in Procs :
        /\ proc[p].pc = "done" /\ proc[p].op = "skip" /\ ReadStatus(p, {"error"})
        /\ \A a \in Stored(p) : a.status = "skipped"
        /\ toolLog # <<>>

C8_Response ==
    \A p \in Procs :
        (proc[p].pc = "done" /\ proc[p].op \in {"approve", "skip"})
            => /\ proc[p].action = {} => proc[p].ret = NotFound(proc[p].aid)
               /\ \A a \in proc[p].ret.body : a.user_id = proc[p].user

C8_NoEffect ==
    \A p \in Procs :
        (proc[p].pc \in {"ap_read", "sk_read"} /\ proc'[p].pc # proc[p].pc /\ Stored(p) = {})
            => /\ actions' = actions
               /\ toolLog' = toolLog
               /\ proc'[p].pc = "done"

C9_OwnerScopedReads ==
    \A p \in Procs :
        /\ (proc[p].pc = "ing_next" /\ proc[p].flags.dup) => WithKey(KeyOf(Cur(p))) # {}
        /\ proc[p].pc = "ing_decide"
              => \A c \in points :
                    c.id \in Range(proc[p].hist[1]) \cup Range(proc[p].hist[2])
                        => c.user_id = proc[p].user

\* C10: get_relevant_history returns the current context in neither the
\* similar list nor the recent list, whether or not it is stored.
C10_SelfExcluded ==
    /\ \A i \in 1..Len(hres[1]) : hres[1][i][1].id # hq.cur.id
    /\ \A i \in 1..Len(hres[2]) : hres[2][i][1].id # hq.cur.id

C10_Witness ==
    /\ hq.cur \in points
    /\ hq.cur.processed
    /\ hq.recent_limit > 0
    /\ Len(hres[1]) > 0
    /\ Len(hres[2]) > 0

\* C11: the context ids of the similar list and of the recent list that
\* get_relevant_history returns are disjoint, for every store and limits.
C11_ListsDisjoint ==
    Range(Ids(hres[1])) \cap Range(Ids(hres[2])) = {}

C11_Witness ==
    /\ hq.recent_limit > 0
    /\ \E i \in 1..Len(hres[1]) : hres[1][i][1].processed
    /\ Len(hres[2]) > 0

\* C12: an item whose ingestion failed in the decision-engine call is not
\* lost: a later ingestion of it is passed over as a duplicate only when its
\* stored context has been processed in the meantime.
C12_FailedItemRetried ==
    \A p \in Procs :
        (proc[p].pc = "ing_next" /\ proc[p].flags.dup /\ KeyOf(Cur(p)) \in engineFailed)
            => \E c \in WithKey(KeyOf(Cur(p))) : c.processed

ActionsOf(context_id) == {a \in actions : a.context_id = context_id}

\* C13: when the ingestion of a context has ended, normally or by an error at
\* any step, the actions stored for the context are all of the tool calls the
\* model returned or none of them.
C13_AllOrNone ==
    \A p \in Procs :
        (proc[p].op = "ingest" /\ ~proc[p].flags.dup
              /\ (proc[p].pc = "ing_next" \/ (proc[p].pc = "done" /\ proc[p].ret.code = 500)))
            => Cardinality(ActionsOf(Cur(p).id)) \in {0, Len(proc[p].decided)}

\* C14: a model response with a tool call whose name is no action type ends
\* the ingestion of the context with an error, and no action of that
\* response is stored for the context, its valid tool calls included.
C14_UnknownToolFails ==
    \A p \in Procs :
        (proc[p].op = "ingest" /\ \E i \in 1..Len(proc[p].calls) : proc[p].calls[i] \notin ActionTypes)
            => /\ proc[p].pc = "done"
               /\ proc[p].ret = ServerError
               /\ ActionsOf(Cur(p).id) = {}

C14_Witness ==
    \E p \in Procs :
        /\ proc[p].pc = "done" /\ proc[p].op = "ingest"
        /\ \E i, j \in 1..Len(proc[p].calls) :
              proc[p].calls[i] \in ActionTypes /\ proc[p].calls[j] \notin ActionTypes

\* the actions stored for a context, in the order of their ids
ActionSeq(context_id) ==
    LET S == ActionsOf(context_id)
    IN  CHOOSE f \in [1..Cardinality(S) -> S] :
            \A i, j \in 1..Cardinality(S) : i < j => f[i].id < f[j].id

\* C15: when the action loop of a context has ended, the actions stored for
\* the context are exactly one per tool call of the response, created in the
\* order of the response, each pending, with the context's id and owner and
\* with the type of its tool call.
C15_OneActionPerCall ==
    \A p \in Procs :
        (proc[p].op = "ingest" /\ proc[p].pc = "ing_next" /\ ~proc[p].flags.dup)
            => LET stored == ActionSeq(Cur(p).id)
               IN  /\ Len(stored) = Len(proc[p].calls)
                   /\ proc[p].flags.created = Len(proc[p].calls)
                   /\ \A i \in 1..Len(stored) :
                         /\ stored[i].type = proc[p].calls[i]
                         /\ stored[i].context_id = Cur(p).id
                         /\ stored[i].status = "pending"

C15_Witness ==
    \E p \in Procs :
        /\ proc[p].op = "ingest" /\ proc[p].pc = "ing_next" /\ ~proc[p].flags.dup
        /\ proc[p].calls = <<"gmail_send_email", "create_todo">>
        /\ actions # ActionsOf(Cur(p).id)

\* C16: for every tool call that parses, the confidence is the value of its
\* confidence argument, or 0.7 when it has none, and the payload is the
\* argument dict without the confidence key.
C16_ConfidenceExtracted ==
    hres.ok =>
        /\ hres.confidence = IF "confidence" \in DOMAIN hq.args THEN hq.args["confidence"].v
                              ELSE ConfidenceDefault
        /\ "confidence" \notin DOMAIN hres.payload
        /\ DOMAIN hres.payload = DOMAIN hq.args \ {"confidence"}
        /\ \A k \in DOMAIN hres.payload : hres.payload[k] = hq.args[k]

C16_Witness ==
    /\ hres.ok
    /\ "confidence" \in DOMAIN hq.args
    /\ hq.args["confidence"] = [kind |-> "float", v |-> 0]
    /\ DOMAIN hres.payload = {"title", "to_email"}

ApproveRan(p) ==
    proc[p].pc = "done" /\ proc[p].op = "approve" /\ ReadStatus(p, {"pending", "error"})

\* C17: an approve of a pending or error action that has written a status
\* wrote executed when the tool result reports success and error when it
\* does not; it never wrote skipped.
C17_ExecutedIffSuccess ==
    \A p \in Procs :
        (ApproveRan(p) /\ proc[p].result # NoResult)
            => \A a \in Stored(p) :
                  /\ a.status \in {"executed", "error"}
                  /\ a.status = "executed" <=> proc[p].result.success

\* C18: after an approve whose tool call reported a failure, the stored
\* action has status error and its result field holds the failure detail.
C18_FailureDetailStored ==
    \A p \in Procs :
        (ApproveRan(p) /\ proc[p].result # NoResult /\ ~proc[p].result.success)
            => \A a \in Stored(p) : a.status = "error" /\ a.result = proc[p].result.detail

\* C19: an exception raised by the tool does not leave the dispatcher: the
\* approve call answers normally and the action is recorded with status error.
C19_ToolExceptionContained ==
    \A p \in Procs :
        ApproveRan(p)
            => /\ proc[p].ret.code = 200
               /\ (toolLog # <<>> /\ toolLog[Len(toolLog)].status = "raised")
                     => \A a \in Stored(p) : a.status = "error"

IsFailureEnvelope(env) == DOMAIN env = {"success", "error"} /\ env["success"] = "False"

\* C20: execute_tool answers every tool result that is not an exception with
\* one envelope: a dict with a success key unchanged, a dict without one as
\* {success: false, error}, a string as {success: true, output: string}, any
\* other type as {success: false, error}; an action type without an executor
\* gives {success: false, error} and no tool is invoked.
C20_OneEnvelope ==
    (hq # NoQuery /\ (hq.executor => hq.result.kind # "raise"))
        => /\ ~hres.raised
           /\ IF ~hq.executor
              THEN ~hres.invoked /\ IsFailureEnvelope(hres.env)
              ELSE CASE hq.result.kind = "dict" /\ "success" \in DOMAIN hq.result.d
                          -> hres.env = hq.result.d
                     [] hq.result.kind = "dict" /\ "success" \notin DOMAIN hq.result.d
                          -> IsFailureEnvelope(hres.env)
                     [] hq.result.kind = "str"
                          -> hres.env = ("success" :> "True" @@ "output" :> hq.result.s)
                     [] OTHER -> IsFailureEnvelope(hres.env)

\* the contexts the recent list may hold: processed, not the current one and
\* not in the similar list
RecentEligible ==
    {c \in points : c.processed /\ c.id # hq.cur.id /\ c.id \notin Range(Ids(hres[1]))}

\* C26: the similar list has min(semantic_limit, stored contexts other than
\* the current one) entries; the recent list has min(recent_limit, eligible
\* contexts) entries, which are eligible, come newest first, and are at
\* least as new as every eligible context left out.
C26_ExactFill ==
    hq # NoQuery =>
        /\ Len(hres[1]) = Min(hq.semantic_limit, Cardinality({c \in points : c.id # hq.cur.id}))
        /\ Len(hres[2]) = Min(hq.recent_limit, Cardinality(RecentEligible))
        /\ \A i \in 1..Len(hres[2]) :
              /\ hres[2][i][1] \in RecentEligible
              /\ \A j \in 1..Len(hres[2]) : i < j => hres[2][i][1].timestamp >= hres[2][j][1].timestamp
              /\ \A c \in RecentEligible :
                    c.id \notin Range(Ids(hres[2])) => c.timestamp <= hres[2][i][1].timestamp

C26_Witness ==
    /\ hq.recent_limit > 0 /\ hq.semantic_limit > 0
    /\ Len(hres[1]) = hq.semantic_limit
    /\ Len(hres[2]) = hq.recent_limit
    /\ hq.cur \in points /\ hq.cur.processed
    /\ \E i \in 1..Len(hres[1]) : hres[1][i][1].processed
    /\ Cardinality(RecentEligible) > hq.recent_limit

C24_Step ==
    \A b \in actions' :
        /\ (\A a \in actions : a.id # b.id) => b.status = "pending"
        /\ \A a \in actions : (a.id = b.id /\ a.status # "pending") => b.status # "pending"

\* C24: every step that adds an action adds it with status pending, and no
\* step gives status pending to an action that has left it.
C24_PendingOnlyAtCreation == [][C24_Step]_vars

C24_Witness ==
    \E a \in actions :
        /\ a.status = "error"
        /\ Cardinality(Invocations(a.id)) >= 2
        /\ \E p \in Procs : proc[p].pc = "done" /\ proc[p].op = "approve" /\ proc[p].aid = a.id

\* C27: an action whose stored status is skipped has had no successful tool
\* execution, whatever approve and skip calls were made on it.
C27_SkippedNeverExecuted ==
    \A a \in actions : a.status = "skipped" => ~ExecutedBefore(a.id)

StoredProcessed(context_id) == \E c \in points : c.id = context_id /\ c.processed

\* C28: when the processing of the k-th context of a batch has raised, every
\* earlier context that was no duplicate is stored and processed and has one
\* action per tool call of its response, and no later context of the batch
\* is stored or has an action.
C28_BatchStopsAtFailure ==
    \A p \in Procs :
        (proc[p].pc = "done" /\ proc[p].op = "ingest" /\ proc[p].ret = ServerError)
            => /\ \A i \in 1..(proc[p].idx - 1) :
                     ~proc[p].outcomes[i].dup
                        => /\ StoredProcessed(proc[p].batch[i].id)
                           /\ Cardinality(ActionsOf(proc[p].batch[i].id))
                                 = Len(proc[p].outcomes[i].calls)
               /\ \A i \in (proc[p].idx + 1)..Len(proc[p].batch) :
                     /\ \A c \in points : c.id # proc[p].batch[i].id
                     /\ ActionsOf(proc[p].batch[i].id) = {}

\* C29: when _process_contexts has returned normally, every context it
\* stored during the call is processed in the Context Store.
C29_StoredAreProcessed ==
    \A p \in Procs :
        (proc[p].pc = "done" /\ proc[p].op = "ingest" /\ proc[p].ret.code = 200)
            => \A i \in 1..Len(proc[p].batch) :
                  ~proc[p].outcomes[i].dup => StoredProcessed(proc[p].batch[i].id)

\* C21: editing the payload of an action id the calling owner does not have
\* is answered with 404, never with a server error, and no stored action
\* changes.
C21_Step ==
    \A p \in Procs :
        (proc[p].pc = "up_write" /\ proc'[p].pc = "done" /\ proc'[p].action = {})
            => /\ proc'[p].ret.code = 404
               /\ actions' = actions

C21_EditMissingNotFound == [][C21_Step]_vars

\* C22: each stored action's context_id names a context that is in the
\* Context Store.
C22_ActionContextStored ==
    \A a \in actions : \E c \in points : c.id = a.context_id

\* C23: a stored context is marked processed only if the decision engine
\* answered for it and the actions it returned are all stored.
C23_ProcessedOnlyAfterDecision ==
    \A c \in points :
        c.processed =>
            \E e \in decidedOn :
                /\ e.context_id = c.id
                /\ Cardinality({a \in actions : a.context_id = c.id}) = e.n

\* the place of a step in the order of one ingestion
StepRank(step) ==
    CASE step = "check"   -> 1
      [] step = "store"   -> 2
      [] step = "history" -> 3
      [] step = "decide"  -> 4
      [] step = "action"  -> 5
      [] step = "mark"    -> 6

\* the steps taken so far are in order, none but the action write is taken
\* twice, and none is taken before the step it depends on
InOrder(trail) ==
    /\ \A i, j \in 1..Len(trail) :
          i < j => /\ StepRank(trail[i]) <= StepRank(trail[j])
                   /\ StepRank(trail[i]) = StepRank(trail[j]) => trail[i] = "action"
    /\ \A j \in 1..Len(trail) :
          LET need == IF trail[j] \in {"action", "mark"} THEN "decide"
                      ELSE IF trail[j] = "decide" THEN "history"
                      ELSE IF trail[j] = "history" THEN "store"
                      ELSE "check"
          IN  trail[j] # "check" => \E i \in 1..(j - 1) : trail[i] = need

\* C25: within one ingestion of a context, on the batch pipeline and on the
\* Gmail path, the steps run in the order dedup check, context store write,
\* history assembly, decision-engine call, action writes, processed flag.
C25_StepsInOrder ==
    \A p \in Procs : proc[p].op \in {"ingest", "gmail"} => InOrder(proc[p].trail)

\* C30: Gmail incremental sync loses no message: every message id listed in
\* the history response of a fetch_new_emails call is returned by that call,
\* or the stored history id stays below it, so that a later call lists it
\* again.
C30_NoMessageLost ==
    \A m \in hres.listed : m \in hres.emails \/ hq.history_id < m

====
